---- MODULE Spec2Model ----
(***************************************************************************)
(* Model of hello_triangle2 (src/hello_triangle2/src/main.rs): the         *)
(* two-pass fractal renderer (init_ogl, init_shaders,                      *)
(* draw_mandelbrot_to_texture, draw_triangles), the PS/2 pointer decoder   *)
(* get_mouse and the main loop demo.                                       *)
(*                                                                         *)
(* Every GL call of the source is one step of the model.  The GL context   *)
(* is the external collaborator: a call either takes effect or raises an   *)
(* error code and is ignored (the error stays pending until gl_check reads *)
(* it).  The pointer device is the other collaborator: each read() returns *)
(* Err, a short count, or a full 3-byte packet.                            *)
(***************************************************************************)
EXTENDS Integers, Sequences, FiniteSets, TLC

VARIABLES
  context,   \* gr_context::Context: [width, height] of the screen
  state,     \* CubeState
  gl,        \* the GL context: pending error, bindings, name allocator
  fn,        \* the function demo is executing, or "exit" / "panic"
  ip,        \* index of the next call of fn (1-based)
  dev,       \* maybe_mouse_dev: "None" or "Some"
  x, y,      \* demo's pointer position (let mut x, y)
  reads,     \* number of read() calls made on the device so far
  call,      \* the current / last get_mouse call: locals and result
  iter,      \* what the current main-loop iteration has issued so far
  log,       \* history of the run: function entries, texture writes, wiring, panic
  stream     \* bytes the device has still to deliver, where it is a byte stream

vars == <<context, state, gl, fn, ip, dev, x, y, reads, call, iter, log, stream>>

----------------------------------------------------------------------------
(* Bounds of the model *)

\* read() calls one run may make on the pointer device
MaxReads == 3

\* screens the windowing collaborator may report (width, height)
ScreenSizes == { <<1920, 1080>>, <<640, 480>> }

\* full packets the device delivers in the main-loop specification
MainPackets ==
  { <<8, 5, 253>>,     \* sync, motion (+5, -3)
    <<24, 10, 0>>,     \* sync, X_SIGN, dx = 10
    <<40, 0, 127>>,    \* sync, Y_SIGN, dy = 127
    <<56, 128, 128>>,  \* sync, both sign flags, dx = dy = -128
    <<8, 127, 127>>,   \* sync, motion (+127, +127)
    <<9, 0, 0>>,       \* sync, left button
    <<10, 7, 7>>,      \* sync, right button, with deltas
    <<0, 5, 5>>,       \* no sync marker: noise
    <<1, 3, 3>> }      \* no sync marker, button bit set

\* byte counts of a short read
ShortCounts == 0 .. 2

\* error codes the GL context may raise (GL_INVALID_VALUE, GL_INVALID_OPERATION)
GLErrors == { 1281, 1282 }

----------------------------------------------------------------------------
(* Integer conversions of the source.                                      *)
(* An i32 is an integer in MinI32 .. MaxI32.  A u32 is held as its 32-bit  *)
(* pattern read as two's complement, so that `as u32` and `as i32` keep    *)
(* the pattern and the unsigned order is what U32Gt computes.              *)

MaxI32 == 2147483647
MinI32 == -MaxI32 - 1

\* the byte left unsigned
AsI8_unsigned(b) == b

\* `b as i8` of a byte 0 .. 255
AsI8(b) == IF b >= 128 THEN b - 256 ELSE b

\* a + b in i32, wrapping on overflow
AddI32(a, b) ==
  IF b >= 0
    THEN IF a > MaxI32 - b THEN (a - MaxI32 - 1) + (b - MaxI32 - 1) ELSE a + b
    ELSE IF a < MinI32 - b THEN (a + MaxI32 + 1) + (b + MaxI32 + 1) ELSE a + b

\* a + b leaves the i32 range
Overflows(a, b) == IF b >= 0 THEN a > MaxI32 - b ELSE a < MinI32 - b

\* what an i32 addition that overflows does: the debug profile panics
\* (overflow checks), the release profile wraps
OverflowOutcomes == { "panic", "wrap" }

\* `v as u32` of an i32, `v as i32` of a u32, `v as GLuint` of a GLint
AsU32(v) == v
AsI32(v) == v

\* a > b for two u32 patterns
U32Gt(a, b) == IF (a < 0) = (b < 0) THEN a > b ELSE a < 0

\* `b & mask != 0` for a mask with the single bit `mask`
BitSet(b, mask) == (b \div mask) % 2 = 1

X_SIGN == 16
Y_SIGN == 32

\* "not found" of get_attrib_location / get_uniform_location
NotFound == 0 - 1

----------------------------------------------------------------------------
(* Shader sources: the names each source declares *)

VSHADER_SOURCE == { "vertex", "tcoord" }
MANDELBROT_FSHADER_SOURCE == { "color", "scale", "centre", "tcoord" }
\* the Julia source without its sampler
JULIA_FSHADER_SOURCE_notex == { "color", "scale", "centre", "offset", "tcoord" }
JULIA_FSHADER_SOURCE == { "color", "scale", "centre", "offset", "tcoord", "tex" }

----------------------------------------------------------------------------
(* The calls of each function, in source order.                            *)
(* f: the call; dst: the CubeState field assigned from its result ("" if   *)
(* none); arg: the CubeState field passed as handle or index ("0" for the  *)
(* literal 0, "" if none); name: the string passed to a location lookup.   *)

G(f, dst, arg, name) == [f |-> f, dst |-> dst, arg |-> arg, name |-> name]
Chk == G("gl_check", "", "", "")

\* init_ogl, lines 264-276
InitOglOps ==
  << G("context_width", "screen_width", "", ""),
     G("context_height", "screen_height", "", ""),
     G("clear_color", "", "", ""),
     G("clear", "", "", ""),
     Chk >>

\* compile one shader and print its log (verbose is 1)
CompileOps(field) ==
  << G("create_shader", field, "", ""),
     G("shader_source", "", field, ""),
     G("compile_shader", "", field, ""),
     Chk,
     G("get_shader_info_log", "", field, "") >>

\* init_shaders, lines 278-425
InitShadersOps ==
  CompileOps("vshader") \o CompileOps("fshader") \o CompileOps("mshader") \o
  << \* julia
     G("create_program", "program", "", ""),
     G("attach_shader", "", "program", "vshader"),
     G("attach_shader", "", "program", "fshader"),
     G("link_program", "", "program", ""),
     Chk,
     G("get_program_info_log", "", "program", ""),
     G("get_attrib_location", "attr_vertex", "program", "vertex"), Chk,
     G("get_uniform_location", "unif_color", "program", "color"), Chk,
     G("get_uniform_location", "unif_scale", "program", "scale"), Chk,
     G("get_uniform_location", "unif_offset", "program", "offset"), Chk,
     G("get_uniform_location", "unif_tex", "program", "tex"), Chk,
     G("get_uniform_location", "unif_centre", "program", "centre"), Chk,
     \* mandelbrot
     G("create_program", "program2", "", ""), Chk,
     G("attach_shader", "", "program2", "vshader"), Chk,
     G("attach_shader", "", "program2", "mshader"), Chk,
     G("link_program", "", "program2", ""), Chk,
     G("get_attrib_location", "attr_vertex2", "program2", "vertex"),
     G("get_uniform_location", "unif_scale2", "program2", "scale"),
     G("get_uniform_location", "unif_offset2", "program2", "offset"),
     G("get_uniform_location", "unif_centre2", "program2", "centre"),
     Chk,
     G("clear_color", "", "", ""),
     G("gen_buffers", "buf", "", ""),
     Chk,
     \* texture image
     G("gen_textures", "tex", "", ""), Chk,
     G("bind_texture", "", "tex", ""), Chk,
     G("tex_image_2d", "", "", ""), Chk,
     G("tex_parameterf", "", "", ""),
     G("tex_parameterf", "", "", ""),
     Chk,
     \* framebuffer
     G("gen_framebuffers", "tex_fb", "", ""), Chk,
     G("bind_framebuffer", "", "tex_fb", ""), Chk,
     G("framebuffer_texture_2d", "", "tex", ""), Chk,
     G("bind_framebuffer", "", "0", ""), Chk,
     G("viewport", "", "", ""), Chk,
     \* vertex data
     G("bind_buffer", "", "buf", ""),
     G("buffer_data", "", "", ""),
     G("vertex_attrib_pointer_offset", "", "attr_vertex", ""),
     G("enable_vertex_attrib_array", "", "attr_vertex", ""),
     G("vertex_attrib_pointer_offset", "", "attr_vertex2", ""),
     G("enable_vertex_attrib_array", "", "attr_vertex2", ""),
     Chk >>

\* the prerender without its flush and finish
DrawMandelbrotOps_nofinish ==
  << G("bind_framebuffer", "", "tex_fb", ""), Chk,
     G("bind_buffer", "", "buf", ""),
     G("use_program", "", "program2", ""), Chk,
     G("uniform2f", "", "unif_scale2", ""),
     G("uniform2f", "", "unif_centre2", ""),
     Chk,
     G("draw_arrays", "", "", ""), Chk >>

\* the prerender generating its framebuffer anew
DrawMandelbrotOps_regen ==
  << G("gen_framebuffers", "tex_fb", "", ""),
     G("bind_framebuffer", "", "tex_fb", ""), Chk,
     G("bind_buffer", "", "buf", ""),
     G("use_program", "", "program2", ""), Chk,
     G("uniform2f", "", "unif_scale2", ""),
     G("uniform2f", "", "unif_centre2", ""),
     Chk,
     G("draw_arrays", "", "", ""), Chk,
     G("flush", "", "", ""),
     G("finish", "", "", ""),
     Chk >>

\* draw_mandelbrot_to_texture, lines 427-450
DrawMandelbrotOps ==
  << G("bind_framebuffer", "", "tex_fb", ""), Chk,
     G("bind_buffer", "", "buf", ""),
     G("use_program", "", "program2", ""), Chk,
     G("uniform2f", "", "unif_scale2", ""),
     G("uniform2f", "", "unif_centre2", ""),
     Chk,
     G("draw_arrays", "", "", ""), Chk,
     G("flush", "", "", ""),
     G("finish", "", "", ""),
     Chk >>

\* draw_triangles without rebinding the default framebuffer
DrawTrianglesOps_nobind ==
  << G("clear", "", "", ""),
     Chk,
     G("bind_buffer", "", "buf", ""), Chk,
     G("use_program", "", "program", ""), Chk,
     G("bind_texture", "", "tex", ""), Chk,
     G("uniform4f", "", "unif_color", ""),
     G("uniform2f", "", "unif_scale", ""),
     G("uniform2f", "", "unif_offset", ""),
     G("uniform2f", "", "unif_centre", ""),
     G("uniform1i", "", "unif_tex", ""),
     Chk,
     G("draw_arrays", "", "", ""), Chk,
     G("bind_buffer", "", "0", ""),
     G("flush", "", "", ""),
     G("finish", "", "", ""),
     Chk >>

\* draw_triangles, lines 452-487
DrawTrianglesOps ==
  << G("bind_framebuffer", "", "0", "") >> \o DrawTrianglesOps_nobind

\* swap_buffers without the check that follows it
SwapBuffersOps_nocheck == << G("swap_buffers", "", "", "") >>

\* demo, lines 605-606: context.swap_buffers(); gl_check();
SwapBuffersOps == << G("swap_buffers", "", "", ""), Chk >>

----------------------------------------------------------------------------
(* The GL context, as the calls above use it *)

\* the names the shaders attached to program field p declare
ShaderSourceOf(field) ==
  CASE field = "vshader" -> VSHADER_SOURCE
    [] field = "fshader" -> JULIA_FSHADER_SOURCE
    [] field = "mshader" -> MANDELBROT_FSHADER_SOURCE

ProgramDecls(p) ==
  UNION { ShaderSourceOf(InitShadersOps[i].name) :
            i \in { j \in DOMAIN InitShadersOps :
                      /\ InitShadersOps[j].f = "attach_shader"
                      /\ InitShadersOps[j].arg = p } }

\* the location the linker gives a declared uniform
UniformIndex(name) ==
  CASE name = "color" -> 0 [] name = "scale" -> 1 [] name = "centre" -> 2
    [] name = "offset" -> 3 [] name = "tex" -> 4 [] OTHER -> NotFound

Creates == { "create_shader", "create_program", "gen_buffers", "gen_textures",
             "gen_framebuffers" }
Lookups == { "get_attrib_location", "get_uniform_location" }
Wirings == { "vertex_attrib_pointer_offset", "enable_vertex_attrib_array" }
Binds   == { "bind_framebuffer", "bind_buffer", "bind_texture" }
NotGL   == { "context_width", "context_height" }
InfoLogs == { "get_shader_info_log", "get_program_info_log" }

\* the value an argument field denotes
ArgVal(op) == IF op.arg = "0" THEN 0 ELSE state[op.arg]

\* a generic vertex attribute index the GL accepts (MAX_VERTEX_ATTRIBS >= 8)
ValidAttribIndex(i) == i \in 0 .. 7

\* what a successful call may return into its dst field
Results(op) ==
  CASE op.f \in Creates -> { gl.next }
    [] op.f = "context_width" -> { context.width }
    [] op.f = "context_height" -> { context.height }
    [] op.f = "get_attrib_location" ->
         IF op.name \in ProgramDecls(op.arg)
           THEN { AsU32(NotFound), AsU32(0) } ELSE { AsU32(NotFound) }
    [] op.f = "get_uniform_location" ->
         IF op.name \in ProgramDecls(op.arg)
           THEN { UniformIndex(op.name) } ELSE { NotFound }
    [] OTHER -> { 0 }

\* what a call that raised an error returns
FailValue(op) == IF op.f \in Lookups THEN NotFound ELSE 0

\* a call the GL must reject
MustFail(op) == op.f \in Wirings /\ ~ValidAttribIndex(ArgVal(op))

\* a call that may raise an error
CanFail(op) ==
  /\ op.f \notin NotGL
  /\ ~(op.f \in Binds /\ op.arg = "0")

\* a draw or clear lands in the texture when the offscreen framebuffer is bound
WritesTexture(op) ==
  /\ op.f \in { "draw_arrays", "clear" }
  /\ gl.fb # 0
  /\ gl.fb = state.tex_fb
  /\ gl.fbtex = state.tex

\* the history after call number i of function f was issued
Logged(op, f, i, done) ==
  [log EXCEPT
     !.runs = IF i = 1 /\ f \in DOMAIN @ THEN [@ EXCEPT ![f] = @ + 1] ELSE @,
     !.wired = IF op.f \in Wirings THEN @ \cup { ArgVal(op) } ELSE @,
     !.texWrites = IF done /\ WritesTexture(op) THEN @ + 1 ELSE @,
     !.assigned = IF op.dst # "" THEN @ \cup { op.dst } ELSE @,
     !.twice = IF op.dst # "" /\ op.dst \in log.assigned THEN @ \cup { op.dst } ELSE @,
     !.infologs = IF op.f \in InfoLogs THEN @ \cup { op.arg } ELSE @]

Issued(op, done) ==
  [iter EXCEPT
     !.draws = IF done /\ op.f = "draw_arrays" THEN @ + 1 ELSE @,
     !.finishes = IF done /\ op.f = "finish" THEN @ + 1 ELSE @,
     !.swaps = IF done /\ op.f = "swap_buffers" THEN @ + 1 ELSE @,
     !.offset = IF done /\ op.f = "uniform2f" /\ op.arg = "unif_offset"
                     /\ ArgVal(op) # NotFound
                  THEN <<x, y>> ELSE @]

\* the call takes effect and returns v
OkOutcome(op, f, i, v) ==
  [state |-> IF op.dst # "" THEN [state EXCEPT ![op.dst] = v] ELSE state,
   gl |-> CASE op.f \in Creates -> [gl EXCEPT !.next = @ + 1]
            [] op.f = "bind_framebuffer" -> [gl EXCEPT !.fb = ArgVal(op)]
            [] op.f = "bind_buffer" -> [gl EXCEPT !.buf = ArgVal(op)]
            [] op.f = "bind_texture" -> [gl EXCEPT !.tex = ArgVal(op)]
            [] op.f = "use_program" -> [gl EXCEPT !.prog = ArgVal(op)]
            [] op.f = "framebuffer_texture_2d" -> [gl EXCEPT !.fbtex = ArgVal(op)]
            [] op.f = "draw_arrays" -> [gl EXCEPT !.pending = TRUE, !.unflushed = TRUE]
            [] op.f = "flush" -> [gl EXCEPT !.unflushed = FALSE]
            [] op.f = "finish" -> [gl EXCEPT !.pending = FALSE]
            [] OTHER -> gl,
   iter |-> Issued(op, TRUE),
   log |-> Logged(op, f, i, TRUE)]

\* the call raises error e and is ignored
FailOutcome(op, f, i, e) ==
  [state |-> IF op.dst # "" THEN [state EXCEPT ![op.dst] = FailValue(op)] ELSE state,
   gl |-> [gl EXCEPT !.err = IF @ = 0 THEN e ELSE @],
   iter |-> Issued(op, FALSE),
   log |-> Logged(op, f, i, FALSE)]

Outcomes(op, f, i) ==
  IF MustFail(op)
    THEN { FailOutcome(op, f, i, 1281) }
    ELSE { OkOutcome(op, f, i, v) : v \in Results(op) }
         \cup (IF CanFail(op) THEN { FailOutcome(op, f, i, e) : e \in GLErrors }
                              ELSE {})

\* gl_check, lines 10-26: panic on a pending error
GlCheckPanics(err) == err # 0

----------------------------------------------------------------------------
(* get_mouse, lines 492-558 *)

\* lines 497-498: the locals x, y start as *outx, *outy
StartX == 800
StartY == 400
\* the locals start at the fixed position instead (lines 495-496)
EntryLocal_default(out, start) == start
EntryLocal(out, start) == out

\* lines 512-517: what a short read leaves in *out, given the local v
ShortReadOut(out, v) == IF out # 0 THEN v ELSE out

\* line 520: the sync marker
\* every full packet taken as in frame
SyncSet_always(buttons) == TRUE
SyncSet(buttons) == BitSet(buttons, 8)

\* line 528: a button bit
\* only the left button tested
ButtonPressed_left(buttons) == buttons % 2 # 0
ButtonPressed(buttons) == buttons % 4 # 0

\* lines 532-540: the local before clamping
Moved(v, byte, signFlag) ==
  LET v1 == AddI32(v, AsI8(byte))
  IN  IF signFlag THEN AddI32(v1, -256) ELSE v1

\* lines 532-540: one of the additions overflows
MoveOverflows(v, byte, signFlag) ==
  \/ Overflows(v, AsI8(byte))
  \/ signFlag /\ Overflows(AddI32(v, AsI8(byte)), -256)

\* lines 541-546: the lower clamp
\* no lower clamp
ClampLow_none(v) == v
ClampLow(v) == IF v < 0 THEN 0 ELSE v

\* lines 541-552: clamp to [0, limit]
Clamp(v, limit) ==
  LET v1 == ClampLow(v)
  IN  IF U32Gt(AsU32(v1), limit) THEN AsI32(limit) ELSE v1

NoCall ==
  [x |-> 0, y |-> 0, outx |-> 0, outy |-> 0, count |-> 0, pkt |-> <<>>,
   raw |-> <<>>, cmp |-> <<>>, overflow |-> FALSE, discards |-> 0,
   clicked |-> FALSE, ret |-> "none"]

\* nothing issued yet: opens and calls count the open attempts and get_mouse
\* calls, offset is the pair last passed as the Julia offset uniform
NewIteration ==
  [draws |-> 0, finishes |-> 0, swaps |-> 0, opens |-> 0, calls |-> 0,
   offset |-> <<>>]

----------------------------------------------------------------------------
(* demo, lines 560-608 *)

\* line 598-600: where a get_mouse result leads
\* the result ignored
AfterGetMouse_continue(b) == "draw_triangles"
AfterGetMouse(b) == IF b THEN "exit" ELSE "draw_triangles"

\* line 582: the option the loop matches on, declared outside the loop
\* the option declared inside the loop, None in every iteration
MaybeMouseDev_fresh(d) == "None"
MaybeMouseDev(d) == d

\* lines 583-595, 604: an open attempt, failed or not, falls through to the frame
\* the loop started again without a frame
AfterOpen_retry == "loop"
AfterOpen == "draw_triangles"

\* line 607: where the loop body's end leads
\* the loop taking in the prerender
LoopBack_prerender == "draw_mandelbrot_to_texture"
LoopBack == "loop"

\* CubeState::new(), lines 216-251
NewCubeState ==
  [screen_width |-> 0, screen_height |-> 0,
   dispman_display |-> 0, dispman_update |-> 0, dispman_element |-> 0,
   verbose |-> 1, vshader |-> 0, fshader |-> 0, mshader |-> 0,
   program |-> 0, program2 |-> 0, tex_fb |-> 0, tex |-> 0, buf |-> 0,
   unif_color |-> 0, attr_vertex |-> 0, unif_scale |-> 0, unif_offset |-> 0,
   unif_tex |-> 0, unif_centre |-> 0,
   attr_vertex2 |-> 0, unif_scale2 |-> 0, unif_offset2 |-> 0, unif_centre2 |-> 0]

\* pending: a draw was submitted and no finish has waited for it;
\* unflushed: a draw was submitted and no flush has followed it
NewGL ==
  [err |-> 0, fb |-> 0, buf |-> 0, tex |-> 0, prog |-> 0, fbtex |-> 0, next |-> 1,
   pending |-> FALSE, unflushed |-> FALSE]

NewLog ==
  [runs |-> [init_ogl |-> 0, init_shaders |-> 0, draw_mandelbrot_to_texture |-> 0],
   wired |-> {}, texWrites |-> 0, panic |-> "",
   assigned |-> {}, twice |-> {}, infologs |-> {}]

\* main, lines 610-615, up to the call of demo
Init ==
  /\ \E s \in ScreenSizes : context = [width |-> s[1], height |-> s[2]]
  /\ state = NewCubeState
  /\ gl = NewGL
  /\ fn = "init_ogl"
  /\ ip = 1
  /\ dev = "None"
  /\ x = 0
  /\ y = 0
  /\ reads = 0
  /\ call = NoCall
  /\ iter = NewIteration
  /\ log = NewLog
  /\ stream = <<>>

\* control moves past call ip of ops, into `next` after the last one
Advance(ops, next) ==
  IF ip = Len(ops) THEN fn' = next /\ ip' = 1 ELSE fn' = fn /\ ip' = ip + 1

\* one call of function f, whose calls are ops and which returns into `next`
Run(f, ops, next) ==
  /\ fn = f
  /\ ip \in DOMAIN ops
  /\ UNCHANGED <<context, dev, x, y, reads, call, stream>>
  /\ IF ops[ip].f = "gl_check"
       THEN /\ IF GlCheckPanics(gl.err)
                 THEN /\ fn' = "panic"
                      /\ ip' = ip
                      /\ gl' = gl
                      /\ log' = [log EXCEPT !.panic = f]
                 ELSE /\ Advance(ops, next)
                      /\ gl' = [gl EXCEPT !.err = 0]
                      /\ log' = log
            /\ UNCHANGED <<state, iter>>
       ELSE /\ \E o \in Outcomes(ops[ip], f, ip) :
                 /\ state' = o.state
                 /\ gl' = o.gl
                 /\ iter' = o.iter
                 /\ log' = o.log
            /\ Advance(ops, next)

InitOgl == Run("init_ogl", InitOglOps, "init_shaders")
InitShaders == Run("init_shaders", InitShadersOps, "draw_mandelbrot_to_texture")
DrawMandelbrotToTexture ==
  Run("draw_mandelbrot_to_texture", DrawMandelbrotOps, "demo_locals")
DrawTriangles == Run("draw_triangles", DrawTrianglesOps, "swap_buffers")
SwapBuffers == Run("swap_buffers", SwapBuffersOps, LoopBack)

\* lines 576-579
DemoLocals ==
  /\ fn = "demo_locals"
  /\ dev' = "None"
  /\ x' = StartX
  /\ y' = StartY
  /\ fn' = "loop"
  /\ iter' = NewIteration
  /\ UNCHANGED <<context, state, gl, ip, reads, call, log, stream>>

\* lines 583-595: one open attempt, failed or successful
OpenDevice ==
  /\ fn = "loop"
  /\ MaybeMouseDev(dev) = "None"
  /\ dev' \in { "None", "Some" }
  /\ fn' = AfterOpen
  /\ ip' = 1
  /\ iter' = [NewIteration EXCEPT !.opens = 1]
  /\ UNCHANGED <<context, state, gl, x, y, reads, call, log, stream>>

\* lines 596-597 and 493-503: enter get_mouse
CallGetMouse ==
  /\ fn = "loop"
  /\ MaybeMouseDev(dev) = "Some"
  /\ fn' = "get_mouse"
  /\ call' = [NoCall EXCEPT !.x = EntryLocal(x, StartX), !.y = EntryLocal(y, StartY),
                            !.outx = x, !.outy = y, !.ret = "running"]
  /\ iter' = [NewIteration EXCEPT !.calls = 1]
  /\ UNCHANGED <<context, state, gl, ip, dev, x, y, reads, log, stream>>

\* get_mouse returns b
Return(b) ==
  /\ fn' = AfterGetMouse(b)
  /\ ip' = 1

\* line 506, Err(_): the loop reads again
ReadErr ==
  /\ fn = "get_mouse"
  /\ reads < MaxReads
  /\ reads' = reads + 1
  /\ UNCHANGED <<context, state, gl, fn, ip, dev, x, y, call, iter, log, stream>>

\* lines 511-519: Ok(count), count < 3
ShortRead(count) ==
  /\ reads' = reads + 1
  /\ call' = [call EXCEPT !.count = count, !.pkt = <<>>, !.ret = "false"]
  /\ x' = ShortReadOut(x, call.x)
  /\ y' = ShortReadOut(y, call.y)
  /\ Return(FALSE)
  /\ UNCHANGED <<context, state, gl, dev, iter, log>>

ReadShort ==
  /\ fn = "get_mouse"
  /\ reads < MaxReads
  /\ \E count \in ShortCounts : ShortRead(count)
  /\ UNCHANGED stream

\* lines 507-510, 520-557: Ok(3) with packet p
ReadPacket(p) ==
  LET buttons == p[1]
      rawx == Moved(call.x, p[2], BitSet(buttons, X_SIGN))
      rawy == Moved(call.y, p[3], BitSet(buttons, Y_SIGN))
      overflow == \/ MoveOverflows(call.x, p[2], BitSet(buttons, X_SIGN))
                  \/ MoveOverflows(call.y, p[3], BitSet(buttons, Y_SIGN))
  IN
  /\ reads' = reads + 1
  /\ UNCHANGED <<context, state, gl, dev, iter>>
  /\ IF ~SyncSet(buttons)
       THEN /\ call' = [call EXCEPT !.discards = @ + 1,
                                     !.clicked = @ \/ buttons % 4 # 0]
            /\ UNCHANGED <<fn, ip, x, y, log>>
       ELSE IF ButtonPressed(buttons)
         THEN /\ call' = [call EXCEPT !.count = 3, !.pkt = p, !.ret = "true",
                                       !.clicked = TRUE]
              /\ Return(TRUE)
              /\ UNCHANGED <<x, y, log>>
         ELSE \E o \in (IF overflow THEN OverflowOutcomes ELSE { "none" }) :
                IF o = "panic"
                  THEN /\ call' = [call EXCEPT !.count = 3, !.pkt = p,
                                                !.overflow = TRUE]
                       /\ fn' = "panic"
                       /\ log' = [log EXCEPT !.panic = "get_mouse"]
                       /\ UNCHANGED <<ip, x, y>>
                  ELSE /\ call' = [call EXCEPT
                                     !.count = 3, !.pkt = p, !.ret = "false",
                                     !.raw = <<rawx, rawy>>,
                                     !.cmp = <<ClampLow(rawx), ClampLow(rawy)>>,
                                     !.overflow = overflow,
                                     !.x = Clamp(rawx, state.screen_width),
                                     !.y = Clamp(rawy, state.screen_height)]
                       /\ x' = Clamp(rawx, state.screen_width)
                       /\ y' = Clamp(rawy, state.screen_height)
                       /\ log' = log
                       /\ Return(FALSE)

ReadFull ==
  /\ fn = "get_mouse"
  /\ reads < MaxReads
  /\ \E p \in MainPackets : ReadPacket(p)
  /\ UNCHANGED stream

Next ==
  \/ InitOgl
  \/ InitShaders
  \/ DrawMandelbrotToTexture
  \/ DemoLocals
  \/ OpenDevice
  \/ CallGetMouse
  \/ ReadErr
  \/ ReadShort
  \/ ReadFull
  \/ DrawTriangles
  \/ SwapBuffers

Spec == Init /\ [][Next]_vars

----------------------------------------------------------------------------
(* The decoder on its own: demo at the top of a loop iteration, device     *)
(* open, every delta byte                                                  *)

\* delta bytes paired with the full range of the other delta byte
DecodeBytes == { 0, 253 }

\* status bytes: every combination of bits 0, 1, 3, 4, 5
DecodeStatus == { s \in 0 .. 63 : ~BitSet(s, 4) }

DecodePackets ==
  { <<s, b1, b2>> : s \in DecodeStatus, b1 \in 0 .. 255, b2 \in DecodeBytes }
  \cup
  { <<s, b1, b2>> : s \in DecodeStatus, b1 \in DecodeBytes, b2 \in 0 .. 255 }

\* pointer positions at the top of an iteration on a w x h screen
DecodePointers(w, h) ==
  { <<StartX, StartY>> } \cup { <<px, py>> : px \in { 0, 10, w }, py \in { 0, h } }

\* reads left to the decoder specification
DecodeReads == 2

\* CubeState once init_shaders has returned, every location found
ReadyCubeState(w, h) ==
  [NewCubeState EXCEPT
     !.screen_width = w, !.screen_height = h,
     !.vshader = 1, !.fshader = 2, !.mshader = 3, !.program = 4, !.program2 = 5,
     !.buf = 6, !.tex = 7, !.tex_fb = 8,
     !.attr_vertex = 0, !.unif_color = UniformIndex("color"),
     !.unif_scale = UniformIndex("scale"), !.unif_offset = UniformIndex("offset"),
     !.unif_tex = UniformIndex("tex"), !.unif_centre = UniformIndex("centre"),
     !.attr_vertex2 = 0, !.unif_scale2 = UniformIndex("scale"),
     !.unif_offset2 = NotFound, !.unif_centre2 = UniformIndex("centre")]

\* the GL context and the history after a frame
FrameGL ==
  [err |-> 0, fb |-> 0, buf |-> 0, tex |-> 7, prog |-> 4, fbtex |-> 7, next |-> 9,
   pending |-> FALSE, unflushed |-> FALSE]
FrameLog ==
  [runs |-> [init_ogl |-> 1, init_shaders |-> 1, draw_mandelbrot_to_texture |-> 1],
   wired |-> {0}, texWrites |-> 1, panic |-> "",
   assigned |-> { op.dst : op \in { InitOglOps[i] : i \in DOMAIN InitOglOps }
                                \cup { InitShadersOps[i] : i \in DOMAIN InitShadersOps } }
                \ { "" },
   twice |-> {},
   infologs |-> { "vshader", "fshader", "mshader", "program" }]

InitDecode ==
  /\ \E s \in ScreenSizes :
       /\ context = [width |-> s[1], height |-> s[2]]
       /\ state = ReadyCubeState(s[1], s[2])
       /\ \E p \in DecodePointers(s[1], s[2]) : x = p[1] /\ y = p[2]
  /\ gl = FrameGL
  /\ fn = "loop"
  /\ ip = 1
  /\ dev = "Some"
  /\ reads = MaxReads - DecodeReads
  /\ call = NoCall
  /\ iter = [draws |-> 1, finishes |-> 1, swaps |-> 1, opens |-> 0, calls |-> 1,
             offset |-> <<x, y>>]
  /\ log = FrameLog
  /\ stream = <<>>

ReadFullDecode ==
  /\ fn = "get_mouse"
  /\ reads < MaxReads
  /\ \E p \in DecodePackets : ReadPacket(p)
  /\ UNCHANGED stream

NextDecode ==
  \/ CallGetMouse
  \/ ReadErr
  \/ ReadShort
  \/ ReadFullDecode

SpecDecode == InitDecode /\ [][NextDecode]_vars

----------------------------------------------------------------------------
(* The decoder on the widest screens: sizes at and just below the i32 limit *)

\* the largest size whose right and bottom edge take a +127 step within i32
EdgeSize == MaxI32 - 127

EdgeScreens == { <<EdgeSize, EdgeSize>>, <<MaxI32, MaxI32>> }

InitEdge ==
  /\ \E s \in EdgeScreens :
       /\ context = [width |-> s[1], height |-> s[2]]
       /\ state = ReadyCubeState(s[1], s[2])
       /\ \E p \in DecodePointers(s[1], s[2]) : x = p[1] /\ y = p[2]
  /\ gl = FrameGL
  /\ fn = "loop"
  /\ ip = 1
  /\ dev = "Some"
  /\ reads = MaxReads - DecodeReads
  /\ call = NoCall
  /\ iter = [draws |-> 1, finishes |-> 1, swaps |-> 1, opens |-> 0, calls |-> 1,
             offset |-> <<x, y>>]
  /\ log = FrameLog
  /\ stream = <<>>

SpecEdge == InitEdge /\ [][NextDecode]_vars

----------------------------------------------------------------------------
(* The main loop reading a byte stream: the device holds a finite sequence *)
(* of bytes and each successful read takes the next 0 to 3 of them         *)

\* byte streams holding a click packet, alone and after a motion packet
ClickStreams == { <<9, 0, 0>>, <<8, 5, 253, 9, 0, 0>> }

\* demo at the top of the iteration that follows the successful open
InitStream ==
  /\ \E s \in ScreenSizes :
       /\ context = [width |-> s[1], height |-> s[2]]
       /\ state = ReadyCubeState(s[1], s[2])
  /\ x = StartX
  /\ y = StartY
  /\ gl = FrameGL
  /\ fn = "loop"
  /\ ip = 1
  /\ dev = "Some"
  /\ reads = 0
  /\ call = NoCall
  /\ iter = [draws |-> 1, finishes |-> 1, swaps |-> 1, opens |-> 1, calls |-> 0,
             offset |-> <<x, y>>]
  /\ log = FrameLog
  /\ stream \in ClickStreams

\* line 506: read(&mut buf) takes the next n bytes of the stream, n <= 3
ReadStream ==
  /\ fn = "get_mouse"
  /\ reads < MaxReads
  /\ \E n \in 0 .. (IF Len(stream) < 3 THEN Len(stream) ELSE 3) :
       /\ stream' = SubSeq(stream, n + 1, Len(stream))
       /\ IF n = 3 THEN ReadPacket(SubSeq(stream, 1, 3)) ELSE ShortRead(n)

NextStream ==
  \/ CallGetMouse
  \/ ReadErr
  \/ ReadStream
  \/ DrawTriangles
  \/ SwapBuffers

\* every read attempt that can be made is eventually made
SpecStream == InitStream /\ [][NextStream]_vars /\ WF_vars(NextStream)

----------------------------------------------------------------------------
(* The triangle demo (src/triangle/src/main.rs): main, setup, triangle.    *)
(* `state` holds the locals of main and setup and the fields of Env.       *)

\* screens the triangle demo may run on
TriangleScreens == { <<1920, 1080>>, <<4096, 2160>> }

\* the largest viewport width and height the GL accepts (GL_MAX_VIEWPORT_DIMS)
MaxViewportDim == 2048

\* the names the two shader sources declare, lines 76-97
VERTEX_SHADER_SOURCE ==
  { "vertexPosition", "vertexColor", "projectionMatrix", "modelViewMatrix", "color" }
FRAGMENT_SHADER_SOURCE == { "color" }

\* the locations the linker may give a name: not found, or an index
TriangleLocations(name) ==
  CASE name \in { "vertexPosition", "vertexColor" } -> { NotFound, 0, 1 }
    [] name = "projectionMatrix" -> { NotFound, 0 }
    [] name = "modelViewMatrix" -> { NotFound, 1 }
    [] OTHER -> { NotFound }

\* main, lines 339-355: the viewport is set and read back before setup
MainOps ==
  << G("context_width", "desired_width", "", ""),
     G("context_height", "desired_height", "", ""),
     G("viewport", "", "", ""),
     G("egl_version", "", "", ""),
     G("get_viewport", "viewport", "", ""),
     G("check_viewport", "", "viewport", "") >>

\* init_shader, lines 99-118
InitShaderOps(field) ==
  << G("create_shader", field, "", ""), Chk,
     G("shader_source", "", field, ""), Chk,
     G("compile_shader", "", field, ""),
     G("get_shader_info_log", "", field, ""),
     Chk,
     G("attach_shader", "", "program", field), Chk >>

\* setup, lines 192-260
SetupOps ==
  << G("clear_color", "", "", ""),
     G("clear", "", "", ""),
     Chk,
     G("create_program", "program", "", ""), Chk >>
  \o InitShaderOps("vertex_shader") \o InitShaderOps("fragment_shader") \o
  << G("link_program", "", "program", ""),
     G("get_program_info_log", "", "program", ""),
     Chk,
     G("use_program", "", "program", ""), Chk,
     \* gen_buffers(2), lines 215-218: one step per name generated
     G("gen_buffers", "vertex_position_buffer", "", ""),
     G("gen_buffers", "vertex_color_buffer", "", ""),
     Chk,
     G("bind_buffer", "", "vertex_position_buffer", ""), Chk,
     G("buffer_data", "", "", ""), Chk,
     G("bind_buffer", "", "vertex_color_buffer", ""), Chk,
     G("buffer_data", "", "", ""), Chk,
     G("get_attrib_location", "vertex_position", "program", "vertexPosition"), Chk,
     G("check_location", "", "vertex_position", ""),
     G("get_attrib_location", "vertex_color", "program", "vertexColor"), Chk,
     G("check_location", "", "vertex_color", ""),
     G("get_uniform_location", "projection_matrix", "program", "projectionMatrix"), Chk,
     G("get_uniform_location", "model_view_matrix", "program", "modelViewMatrix"), Chk >>

\* triangle, lines 291-335
TriangleOps ==
  << G("uniform_matrix4fv", "", "projection_matrix", ""), Chk,
     G("uniform_matrix4fv", "", "model_view_matrix", ""), Chk,
     G("enable_vertex_attrib_array", "", "vertex_position", ""), Chk,
     G("bind_buffer", "", "vertex_position_buffer", ""), Chk,
     G("vertex_attrib_pointer_offset", "", "vertex_position", ""), Chk,
     G("bind_buffer", "", "vertex_color_buffer", ""), Chk,
     G("vertex_attrib_pointer_offset", "", "vertex_color", ""), Chk,
     G("enable_vertex_attrib_array", "", "vertex_color", ""), Chk,
     G("draw_arrays", "", "", ""), Chk >>

\* main, lines 366-367
MainSwapOps == << G("swap_buffers", "", "", ""), Chk >>

\* lines 236, 242: the test on a location setup has just looked up
\* no test
LocationPanics_never(v) == FALSE
LocationPanics(v) == v < 0

\* line 353: the test on the viewport read back
ViewportWrong(viewport, w, h) == viewport[1] # w \/ viewport[2] # h

\* the viewport the GL keeps for a requested w x h
ClampViewport(w, h) ==
  << IF w > MaxViewportDim THEN MaxViewportDim ELSE w,
     IF h > MaxViewportDim THEN MaxViewportDim ELSE h >>

\* calls of the triangle demo that are not GL calls or cannot raise an error
TriangleNotGL == { "context_width", "context_height", "egl_version", "get_viewport" }

\* what a successful call of the triangle demo may return into its dst
TriangleResults(op) ==
  CASE op.f \in Lookups -> TriangleLocations(op.name)
    [] op.f = "get_viewport" -> { gl.viewport }
    [] OTHER -> Results(op)

\* a successful call; viewport is the one call with an effect of its own
TriangleOk(op, f, i, v) ==
  LET o == OkOutcome(op, f, i, v)
  IN  IF op.f = "viewport"
        THEN [o EXCEPT !.gl = [@ EXCEPT !.viewport =
                                  ClampViewport(state.desired_width,
                                                state.desired_height)]]
        ELSE o

TriangleOutcomes(op, f, i) ==
  IF MustFail(op)
    THEN { FailOutcome(op, f, i, 1281) }
    ELSE { TriangleOk(op, f, i, v) : v \in TriangleResults(op) }
         \cup (IF op.f \notin TriangleNotGL /\ CanFail(op)
                 THEN { FailOutcome(op, f, i, e) : e \in GLErrors }
                 ELSE {})

\* the locals of main and setup before they are assigned
NewEnv ==
  [desired_width |-> 0, desired_height |-> 0, viewport |-> <<0, 0>>,
   program |-> 0, vertex_shader |-> 0, fragment_shader |-> 0,
   vertex_position_buffer |-> 0, vertex_color_buffer |-> 0,
   vertex_position |-> 0, vertex_color |-> 0,
   projection_matrix |-> 0, model_view_matrix |-> 0]

\* Context::new(), line 339: the viewport starts as the surface size
InitTriangle ==
  /\ \E s \in TriangleScreens :
       /\ context = [width |-> s[1], height |-> s[2]]
       /\ gl = [err |-> 0, fb |-> 0, buf |-> 0, tex |-> 0, prog |-> 0,
                fbtex |-> 0, next |-> 1, pending |-> FALSE, unflushed |-> FALSE,
                viewport |-> ClampViewport(s[1], s[2])]
  /\ state = NewEnv
  /\ fn = "main"
  /\ ip = 1
  /\ dev = "None"
  /\ x = 0
  /\ y = 0
  /\ reads = 0
  /\ call = NoCall
  /\ iter = NewIteration
  /\ log = NewLog
  /\ stream = <<>>

\* one call of function f of the triangle demo
RunTriangle(f, ops, next) ==
  /\ fn = f
  /\ ip \in DOMAIN ops
  /\ UNCHANGED <<context, dev, x, y, reads, call, stream>>
  /\ CASE ops[ip].f = "gl_check" ->
            /\ IF GlCheckPanics(gl.err)
                 THEN /\ fn' = "panic"
                      /\ ip' = ip
                      /\ gl' = gl
                      /\ log' = [log EXCEPT !.panic = f]
                 ELSE /\ Advance(ops, next)
                      /\ gl' = [gl EXCEPT !.err = 0]
                      /\ log' = log
            /\ UNCHANGED <<state, iter>>
       [] ops[ip].f = "check_location" ->
            /\ IF LocationPanics(ArgVal(ops[ip]))
                 THEN /\ fn' = "panic"
                      /\ ip' = ip
                      /\ log' = [log EXCEPT !.panic = f]
                 ELSE /\ Advance(ops, next)
                      /\ log' = log
            /\ UNCHANGED <<state, gl, iter>>
       [] ops[ip].f = "check_viewport" ->
            /\ IF ViewportWrong(ArgVal(ops[ip]), AsI32(state.desired_width),
                                AsI32(state.desired_height))
                 THEN fn' = "err" /\ ip' = ip
                 ELSE Advance(ops, next)
            /\ UNCHANGED <<state, gl, iter, log>>
       [] OTHER ->
            /\ \E o \in TriangleOutcomes(ops[ip], f, ip) :
                 /\ state' = o.state
                 /\ gl' = o.gl
                 /\ iter' = o.iter
                 /\ log' = o.log
            /\ Advance(ops, next)

Main == RunTriangle("main", MainOps, "setup")
Setup == RunTriangle("setup", SetupOps, "triangle")
Triangle == RunTriangle("triangle", TriangleOps, "main_swap")
MainSwap == RunTriangle("main_swap", MainSwapOps, "ok")

NextTriangle ==
  \/ Main
  \/ Setup
  \/ Triangle
  \/ MainSwap

SpecTriangle == InitTriangle /\ [][NextTriangle]_vars

----------------------------------------------------------------------------
(* Properties *)

Min(a, b) == IF a < b THEN a ELSE b
Max(a, b) == IF a > b THEN a ELSE b

\* a byte read as a signed 8-bit value
Signed8(b) == IF b < 128 THEN b ELSE b - 256

\* 1 when the bit `mask` of b is set, else 0
Flag(b, mask) == (b \div mask) % 2

\* get_mouse has returned from its latest call
Returned == call.ret \in { "true", "false" }

\* the latest call ended on a sync-marked packet without button bits
MotionReturned == Returned /\ call.pkt # <<>> /\ call.pkt[1] % 4 = 0

\* the latest call ended on a read of fewer than 3 bytes
ShortReturned == Returned /\ call.pkt = <<>>

C2_AnyButtonPacketTerminates ==
  (Returned /\ call.clicked) => (call.ret = "true" /\ x = call.outx /\ y = call.outy)

\* C2 amended: a full packet with the sync marker and a button bit set,
\* whatever its sign flags and delta bytes, makes get_mouse return true with
\* x and y as on entry.
C2_SyncedButtonPacketTerminates ==
  (Returned /\ call.pkt # <<>> /\ call.pkt[1] % 4 # 0) =>
    /\ call.ret = "true"
    /\ fn = "exit"
    /\ x = call.outx
    /\ y = call.outy

C2_Witness ==
  /\ call.ret = "true"
  /\ call.pkt[1] % 4 = 2
  /\ Flag(call.pkt[1], 16) = 1
  /\ call.pkt[2] = 255
  /\ x = 10

\* C3: a read of fewer than 3 bytes, first of the call or after discarded
\* packets, makes get_mouse return false with x and y as on entry, 0 included.
C3_ShortReadKeepsPointer ==
  ShortReturned =>
    /\ call.count \in 0 .. 2
    /\ call.ret = "false"
    /\ fn = "draw_triangles"
    /\ x = call.outx
    /\ y = call.outy

C3_Witness ==
  /\ ShortReturned
  /\ call.discards > 0
  /\ call.count = 2
  /\ call.outx = 10
  /\ call.outy = 0

\* the main loop is running (demo is between line 581 and line 607)
InMainLoop == fn \in { "loop", "get_mouse", "draw_triangles", "swap_buffers", "exit" }

\* C4: in every state of the main loop, on every screen, 0 <= x <= width and
\* 0 <= y <= height.
C4_PointerOnScreen ==
  InMainLoop =>
    /\ 0 <= x /\ x <= context.width
    /\ 0 <= y /\ y <= context.height

\* the 9-bit two's-complement value with sign bit s and low 8 bits b
Signed9(s, b) == b - 256 * s

\* C5: the change a motion packet applies before clamping is the signed 9-bit
\* value whose sign bit is the sign flag and whose low 8 bits are the delta
\* byte, for x (bit 4, byte 1) and for y (bit 5, byte 2).
C5_NineBitDelta ==
  MotionReturned =>
    /\ call.raw[1] - call.outx = Signed9(Flag(call.pkt[1], 16), call.pkt[2])
    /\ call.raw[2] - call.outy = Signed9(Flag(call.pkt[1], 32), call.pkt[3])

\* the renderer phase: 0 Uninitialized, 1 ShadersReady, 2 TexturePrerendered,
\* 3 Running; 4 once the process has panicked
PhaseRank ==
  CASE fn \in { "init_ogl", "init_shaders" } -> 0
    [] fn = "draw_mandelbrot_to_texture" -> 1
    [] fn = "demo_locals" -> 2
    [] fn \in { "loop", "get_mouse", "draw_triangles", "swap_buffers", "exit" } -> 3
    [] fn = "panic" -> 4

\* C6: the phases only move forward; init_shaders and the Mandelbrot
\* prerender are each entered at most once, and exactly once before any Julia
\* frame, however many iterations the loop makes.
C6_PhasesForwardOnce ==
  [][/\ PhaseRank' >= PhaseRank
     /\ log'.runs.init_shaders <= 1
     /\ log'.runs.draw_mandelbrot_to_texture <= 1
     /\ PhaseRank' >= 1 /\ fn' # "panic" => log'.runs.init_shaders = 1
     /\ PhaseRank' >= 2 /\ fn' # "panic" =>
          log'.runs.draw_mandelbrot_to_texture = 1]_vars

C6_Witness ==
  /\ fn = "draw_triangles"
  /\ ip = Len(DrawTrianglesOps)
  /\ call.ret = "false"
  /\ reads = MaxReads
  /\ log.runs.init_shaders = 1
  /\ log.runs.draw_mandelbrot_to_texture = 1

\* the prerender pass has completed
PrerenderDone == fn \in { "demo_locals" } \/ InMainLoop

\* the call demo is about to issue
NextOp ==
  CASE fn = "init_ogl" -> InitOglOps[ip]
    [] fn = "init_shaders" -> InitShadersOps[ip]
    [] fn = "draw_mandelbrot_to_texture" -> DrawMandelbrotOps[ip]
    [] fn = "draw_triangles" -> DrawTrianglesOps[ip]
    [] fn = "swap_buffers" -> SwapBuffersOps[ip]
    [] OTHER -> G("", "", "", "")

OffscreenBound == gl.fb # 0 /\ gl.fb = state.tex_fb

\* C7: once the prerender has completed the texture is not written again (it
\* is written once in the whole run); every draw and clear of a Julia frame
\* is issued with the default framebuffer bound; after the prerender the
\* offscreen framebuffer is bound only while the Mandelbrot program is
\* active, and no draw or clear is ever issued into it under another program.
C7_TextureImmutable ==
  /\ log.texWrites <= 1
  /\ PrerenderDone => log.texWrites = 1
  /\ (fn = "draw_triangles" /\ NextOp.f \in { "draw_arrays", "clear" }) => gl.fb = 0
  /\ (PrerenderDone /\ OffscreenBound) => gl.prog = state.program2
  /\ (NextOp.f \in { "draw_arrays", "clear" } /\ OffscreenBound) =>
       gl.prog = state.program2

C7_Witness ==
  /\ fn = "draw_triangles"
  /\ NextOp.f = "draw_arrays"
  /\ gl.fb = 0
  /\ gl.prog = state.program
  /\ log.texWrites = 1
  /\ reads > 0

\* C8: a gl_check that observes a pending error panics, and control never
\* passes from one phase (init_ogl, init_shaders, prerender, Julia frame,
\* buffer swap) to the next, or into a later loop iteration, with an error
\* pending; nothing happens after the panic.
C8_ErrorsAbortInPhase ==
  [][/\ (NextOp.f = "gl_check" /\ gl.err # 0) => fn' = "panic"
     /\ (fn' # fn /\ fn' # "panic") => gl'.err = 0
     /\ fn # "panic"]_vars

C8_Witness ==
  /\ fn = "panic"
  /\ log.panic = "swap_buffers"
  /\ gl.err # 0
  /\ reads > 0

\* C9: no vertex-attribute wiring call is issued with a not-found attribute
\* index, and no prerender or Julia draw is issued while attr_vertex or
\* attr_vertex2 holds the not-found sentinel.
C9_NotFoundNeverWired ==
  /\ AsU32(NotFound) \notin log.wired
  /\ (fn \in { "draw_mandelbrot_to_texture", "draw_triangles" }
      /\ NextOp.f = "draw_arrays") =>
       (state.attr_vertex # AsU32(NotFound) /\ state.attr_vertex2 # AsU32(NotFound))

\* C10: when get_mouse has returned true the loop is left in that iteration:
\* demo is at its exit and the iteration has issued no draw, no finish and no
\* buffer swap.
C10_TerminateExitsAtOnce ==
  call.ret = "true" =>
    /\ fn = "exit"
    /\ iter = [NewIteration EXCEPT !.calls = 1]

C10_Witness ==
  /\ call.ret = "true"
  /\ fn = "exit"
  /\ call.discards > 0
  /\ log.runs.draw_mandelbrot_to_texture = 1

\* C11: every draw is flushed and finished before its output is consumed: when
\* a Julia draw is issued the prerender's draw (and every earlier frame's) has
\* been flushed and waited for, and when a frame's buffer swap is issued that
\* frame's one Julia draw has been flushed and waited for.
C11_DrawsFinishedBeforeUse ==
  /\ (fn = "draw_triangles" /\ NextOp.f = "draw_arrays") =>
       /\ log.texWrites = 1
       /\ ~gl.pending
       /\ ~gl.unflushed
  /\ (fn = "swap_buffers" /\ NextOp.f = "swap_buffers") =>
       /\ iter.draws = 1
       /\ iter.finishes = 1
       /\ ~gl.pending
       /\ ~gl.unflushed
  /\ (fn \in { "demo_locals", "loop", "get_mouse", "exit" }) =>
       (~gl.pending /\ ~gl.unflushed)

C11_Witness ==
  /\ fn = "swap_buffers"
  /\ NextOp.f = "swap_buffers"
  /\ iter.draws = 1
  /\ iter.finishes = 1
  /\ ~gl.pending
  /\ log.texWrites = 1
  /\ reads > 0

\* C12: every iteration of the main loop that does not receive terminate =
\* true (an open attempt, failed or not, or a decode that returned false)
\* goes on to the Julia frame, issues exactly one Julia draw whose offset
\* uniform is the pointer position as the decode left it, then exactly one
\* buffer swap, and comes back to the top of the loop; demo leaves the loop
\* only when get_mouse returned true.
C12_OneFramePerIteration ==
  [][/\ (fn = "loop" /\ iter'.opens = 1) => fn' = "draw_triangles"
     /\ (fn = "get_mouse" /\ call'.ret = "false") => fn' = "draw_triangles"
     /\ (fn \in { "draw_triangles", "swap_buffers" }) => (x' = x /\ y' = y)
     /\ (fn = "swap_buffers" /\ NextOp.f = "swap_buffers") =>
          /\ iter.draws = 1
          /\ iter.swaps = 0
          /\ iter.offset = <<x, y>>
     /\ (fn' = "loop" /\ fn # "demo_locals") =>
          /\ iter'.draws = 1
          /\ iter'.swaps = 1
          /\ iter'.offset = <<x', y'>>
          /\ call'.ret # "true"
     /\ fn' = "exit" => call'.ret = "true"]_vars

C12_Witness ==
  /\ fn = "loop"
  /\ call.ret = "false"
  /\ call.pkt = <<8, 5, 253>>
  /\ iter.calls = 1
  /\ iter.draws = 1
  /\ iter.swaps = 1
  /\ iter.offset = <<805, 397>>
  /\ x = 805 /\ y = 397

\* C13: a read attempt that yields anything other than a full packet lacking
\* the sync marker ends the get_mouse call; in particular a read that finds no
\* new data on the non-blocking device makes the call return false instead of
\* reading again.
C13_ReturnsUnlessNoSyncPacket ==
  [][(fn = "get_mouse" /\ reads' = reads + 1 /\ call'.discards = call.discards)
       => fn' # "get_mouse"]_vars

\* C14: with the device open and a click packet in the byte stream, however
\* the stream is split across reads the click is not lost: once every byte of
\* the stream has been delivered and get_mouse has returned, demo has left
\* the loop (or a GL error has stopped it).
C14_ClickNeverLost ==
  (stream = <<>> /\ Returned /\ fn # "panic") => fn = "exit"

\* C15: a full packet lacking the sync marker is discarded without effect:
\* the read that takes it changes neither x, y nor the locals, produces no
\* return value and leaves get_mouse reading; the packet that ends a call is
\* sync-marked, and the motion a call applies is that of this one packet
\* alone, whatever was discarded before it.
C15_NoSyncPacketDiscarded ==
  [][/\ (fn = "get_mouse" /\ call'.discards # call.discards) =>
          /\ call'.discards = call.discards + 1
          /\ x' = x /\ y' = y
          /\ call'.x = call.x /\ call'.y = call.y
          /\ call'.ret = "running"
          /\ fn' = "get_mouse"
     /\ (fn = "get_mouse" /\ call'.ret # "running" /\ call'.pkt # <<>>) =>
          BitSet(call'.pkt[1], 8)
     /\ (fn = "get_mouse" /\ call'.ret = "false" /\ call'.pkt # <<>>) =>
          /\ call'.raw[1] = call'.outx + Signed8(call'.pkt[2])
                               - 256 * Flag(call'.pkt[1], 16)
          /\ call'.raw[2] = call'.outy + Signed8(call'.pkt[3])
                               - 256 * Flag(call'.pkt[1], 32)
          /\ x' = Min(Max(call'.raw[1], 0), context.width)
          /\ y' = Min(Max(call'.raw[2], 0), context.height)]_vars

C15_Witness ==
  /\ MotionReturned
  /\ call.discards = 1
  /\ call.clicked
  /\ call.pkt = <<8, 5, 253>>
  /\ call.outx = 800 /\ call.outy = 400
  /\ x = 805 /\ y = 397

\* C16: an iteration that starts with the device not open attempts exactly
\* one open and performs no decode; the attempt, failed or not, leaves the
\* pointer unchanged and goes on to the frame, never out of the loop; once
\* the device is open it stays open, no open is attempted again, and every
\* iteration performs exactly one get_mouse call.
C16_DeviceAcquisition ==
  [][/\ (fn = "loop" /\ dev = "None") =>
          /\ iter'.opens = 1
          /\ iter'.calls = 0
          /\ fn' = "draw_triangles"
          /\ x' = x /\ y' = y
          /\ call' = call
          /\ reads' = reads
     /\ (fn = "loop" /\ dev = "Some") =>
          /\ iter'.opens = 0
          /\ iter'.calls = 1
          /\ fn' = "get_mouse"
     /\ (fn \notin { "loop", "demo_locals" }) =>
          /\ iter'.opens = iter.opens
          /\ iter'.calls = iter.calls
          /\ dev' = dev
     /\ dev = "Some" => dev' = "Some"]_vars

C16_Witness ==
  /\ fn = "loop"
  /\ dev = "Some"
  /\ iter.opens = 0
  /\ iter.calls = 1
  /\ iter.swaps = 1
  /\ reads = MaxReads

\* C17: once init_shaders has returned no step changes any field of the
\* renderer state (prerender, Julia frames, open attempts and get_mouse calls
\* included), and no field of it is assigned twice in a run.
C17_StateFrozenAfterInit ==
  [][/\ PhaseRank >= 1 => state' = state
     /\ log'.twice = {}]_vars

C17_Witness ==
  /\ fn = "loop"
  /\ reads = MaxReads
  /\ call.pkt = <<8, 5, 253>>
  /\ iter.draws = 1
  /\ state = ReadyCubeState(context.width, context.height)
  /\ log.assigned = FrameLog.assigned
  /\ log.twice = {}

\* C18: init_shaders retrieves and prints the info log of each of the three
\* shaders and of each of the two programs after its compile or link step:
\* once init_shaders has returned, all five logs have been retrieved.
C18_EveryInfoLogPrinted ==
  (PhaseRank >= 1 /\ fn # "panic") =>
    log.infologs = { "vshader", "fshader", "mshader", "program", "program2" }

\* C19 as stated: every location lookup of init_shaders asks a program for a
\* name that its vertex or fragment source declares.
C19_LookupsDeclared ==
  NextOp.f \in Lookups => NextOp.name \in ProgramDecls(NextOp.arg)

\* C19 amended: every location lookup of init_shaders asks a program for a
\* name its sources declare, except the lookup of `offset` on the Mandelbrot
\* program that fills unif_offset2; that field holds not-found once
\* init_shaders has returned and is passed to no call, while every other
\* uniform location has been found.
C19_LookupsDeclaredOrUnused ==
  /\ NextOp.f \in Lookups =>
       \/ NextOp.name \in ProgramDecls(NextOp.arg)
       \/ NextOp.dst = "unif_offset2" /\ NextOp.arg = "program2"
                                      /\ NextOp.name = "offset"
  /\ NextOp.arg # "unif_offset2"
  /\ (PhaseRank >= 1 /\ fn # "panic") =>
       /\ state.unif_offset2 = NotFound
       /\ \A u \in { "unif_color", "unif_scale", "unif_offset", "unif_tex",
                      "unif_centre", "unif_scale2", "unif_centre2" } :
            state[u] # NotFound

C19_Witness ==
  /\ fn = "draw_triangles"
  /\ NextOp.arg = "unif_offset"
  /\ state.unif_offset = UniformIndex("offset")
  /\ state.unif_offset2 = NotFound
  /\ state.unif_centre2 = UniformIndex("centre")

\* C20 as stated: on every screen narrower and lower than 2^31 no addition
\* of get_mouse overflows i32, and the unsigned comparisons with width and
\* height are evaluated on non-negative x and y only.
C20_NoOverflowBelowTwoTo31 ==
  /\ ~call.overflow
  /\ MotionReturned => (call.cmp[1] >= 0 /\ call.cmp[2] >= 0)

\* C20 amended: on every screen whose width and height are at most
\* 2^31 - 128 no addition of get_mouse overflows i32, whatever the packet;
\* on every screen the unsigned comparisons with width and height are
\* evaluated on non-negative x and y only.
C20_NoOverflowUpToEdgeSize ==
  /\ (context.width <= EdgeSize /\ context.height <= EdgeSize) =>
       (~call.overflow /\ fn # "panic")
  /\ MotionReturned =>
       /\ call.cmp[1] >= 0 /\ call.cmp[2] >= 0
       /\ call.raw[1] < 0 => call.cmp[1] = 0
       /\ call.raw[2] < 0 => call.cmp[2] = 0

C20_Witness ==
  /\ MotionReturned
  /\ context.width = EdgeSize
  /\ call.outx = EdgeSize
  /\ call.outy = 0
  /\ call.pkt = <<40, 127, 253>>
  /\ call.raw = <<MaxI32, 0 - 259>>
  /\ call.cmp = <<MaxI32, 0>>
  /\ x = EdgeSize
  /\ y = 0

\* the call the triangle demo is about to issue
TriangleNextOp ==
  CASE fn = "main" -> MainOps[ip]
    [] fn = "setup" -> SetupOps[ip]
    [] fn = "triangle" -> TriangleOps[ip]
    [] fn = "main_swap" -> MainSwapOps[ip]
    [] OTHER -> G("", "", "", "")

\* C21: in the triangle demo setup panics when the location of
\* vertexPosition or of vertexColor is negative, and main returns an error,
\* without entering setup, when the viewport read back differs from the
\* requested width or height; triangle never enables or wires a vertex
\* attribute with a not-found index, and after either failure nothing
\* happens: no draw and no buffer swap has been or is issued.
C21_TriangleChecksAbort ==
  [][/\ (TriangleNextOp.f = "check_location" /\ state[TriangleNextOp.arg] < 0) =>
          (fn' = "panic" /\ log'.panic = "setup")
     /\ (TriangleNextOp.f = "check_viewport"
         /\ state.viewport # <<context.width, context.height>>) =>
          (fn = "main" /\ fn' = "err")
     /\ fn' = "setup" => state'.viewport = <<context.width, context.height>>
     /\ fn' = "triangle" => (state'.vertex_position >= 0 /\ state'.vertex_color >= 0)
     /\ NotFound \notin log'.wired
     /\ (fn' = "err" \/ (fn' = "panic" /\ log'.panic \in { "main", "setup" })) =>
          (iter'.draws = 0 /\ iter'.swaps = 0)
     /\ fn \notin { "err", "panic" }]_vars

C21_Witness ==
  /\ fn = "panic"
  /\ log.panic = "setup"
  /\ gl.err = 0
  /\ state.vertex_position = 1
  /\ state.vertex_color = NotFound
  /\ log.wired = {}
  /\ iter.draws = 0
  /\ iter.swaps = 0

====
